---- MODULE Spec2Model ----
(***************************************************************************)
(* State-machine model of provision_reader.py: the provisioning script     *)
(* that creates a reader account, a share, and a login user in the reader  *)
(* account.  The remote catalog is the state that survives a run; one run  *)
(* of main() is a walk of pc from "start" to "done".  Text is modelled as  *)
(* a sequence of one-character strings.                                    *)
(***************************************************************************)
EXTENDS Integers, Sequences, FiniteSets, TLC

\* ------------------------------------------------------------------ bounds
MaxRuns == 2
MaxObjects == 2

\* ------------------------------------------------------------------ text
\* Python's None, and the absence of a remote object
None == [none |-> TRUE]

SCHEME_HTTPS == <<"h","t","t","p","s",":","/","/">>
SCHEME_HTTP == <<"h","t","t","p",":","/","/">>
SNOWFLAKE_SUFFIX == <<".","s","n","o","w","f","l","a","k","e","c","o","m","p","u","t","i","n","g",".","c","o","m">>

\* str.startswith
StartsWith(s, p) == Len(s) >= Len(p) /\ SubSeq(s, 1, Len(p)) = p

\* str.find, 1-based; 0 when p does not occur in s
Find(s, p) ==
    LET hits == {k \in 1..(Len(s) - Len(p) + 1) : SubSeq(s, k, k + Len(p) - 1) = p}
    IN  IF hits = {} THEN 0 ELSE CHOOSE k \in hits : \A j \in hits : k <= j

\* s.split(sep, 1)[0]
SplitFirst(s, sep) == IF Find(s, sep) = 0 THEN s ELSE SubSeq(s, 1, Find(s, sep) - 1)

\* s[n:]
DropPrefix(s, n) == SubSeq(s, n + 1, Len(s))

account_identifier_from_url(account_url) ==
    LET u1 == IF StartsWith(account_url, SCHEME_HTTPS) THEN DropPrefix(account_url, Len(SCHEME_HTTPS))
              ELSE IF StartsWith(account_url, SCHEME_HTTP) THEN DropPrefix(account_url, Len(SCHEME_HTTP))
              ELSE account_url
        url == SplitFirst(u1, <<"/">>)
    IN  IF Find(url, SNOWFLAKE_SUFFIX) # 0 THEN SplitFirst(url, SNOWFLAKE_SUFFIX) ELSE url

\* str.strip: whitespace off both ends
WHITESPACE == {" ", "\t", "\n"}
RECURSIVE LStrip(_)
LStrip(s) == IF s # << >> /\ Head(s) \in WHITESPACE THEN LStrip(Tail(s)) ELSE s
RECURSIVE RStrip(_)
RStrip(s) == IF s # << >> /\ s[Len(s)] \in WHITESPACE THEN RStrip(SubSeq(s, 1, Len(s) - 1)) ELSE s
Strip(s) == RStrip(LStrip(s))

\* str.lower
UPPERCASE == <<"A","B","C","D","E","F","G","H","I","J","K","L","M",
               "N","O","P","Q","R","S","T","U","V","W","X","Y","Z">>
LOWERCASE == <<"a","b","c","d","e","f","g","h","i","j","k","l","m",
               "n","o","p","q","r","s","t","u","v","w","x","y","z">>
LowerChar(c) ==
    IF \E k \in 1..Len(UPPERCASE) : UPPERCASE[k] = c
    THEN LOWERCASE[CHOOSE k \in 1..Len(UPPERCASE) : UPPERCASE[k] = c]
    ELSE c
Lower(s) == [k \in 1..Len(s) |-> LowerChar(s[k])]

\* A Python value that is a str; None is the value that is missing.
Text(s) == [text |-> s]

\* main's nested function: "" for a missing or blank filter, else the
\* stripped filter, with "WHERE " put in front unless it is there.
WHERE_LOWER == <<"w","h","e","r","e"," ">>
WHERE_KEYWORD == <<"W","H","E","R","E"," ">>
normalize_where_case_sensitive(where_val) ==
    LET v == Strip(IF where_val = None THEN << >> ELSE where_val.text)
    IN  IF v = << >> THEN << >>
        ELSE IF ~StartsWith(LStrip(v), WHERE_KEYWORD) THEN WHERE_KEYWORD \o v
        ELSE v
normalize_where(where_val) ==
    LET v == Strip(IF where_val = None THEN << >> ELSE where_val.text)
    IN  IF v = << >> THEN << >>
        ELSE IF ~StartsWith(LStrip(Lower(v)), WHERE_LOWER) THEN WHERE_KEYWORD \o v
        ELSE v

\* SQL LIKE as used by SHOW ... LIKE '<pattern>': "_" matches one character,
\* "%" matches any run of characters, every other character matches itself.
RECURSIVE LikeMatch(_, _)
LikeMatch(pat, s) ==
    IF pat = << >> THEN s = << >>
    ELSE IF Head(pat) = "%"
         THEN LikeMatch(Tail(pat), s) \/ (s # << >> /\ LikeMatch(pat, Tail(s)))
    ELSE IF s = << >> THEN FALSE
    ELSE (Head(pat) = "_" \/ Head(pat) = Head(s)) /\ LikeMatch(Tail(pat), Tail(s))

\* ------------------------------------------------------------------ names
\* reader.account_name values of the configurations explored, and the name of
\* a managed account that some other configuration owns.
NAME_PLAIN == <<"R","1">>
NAME_WILD == <<"R","_">>
NAME_OTHER == <<"R","X">>
AccountNames == {NAME_PLAIN, NAME_WILD, NAME_OTHER}

ViewNames == <<"V1", "V2", "V3">>
TableNames == <<"T1", "T2", "T3">>
\* view_where of the entries of data.objects: none, a bare condition, a
\* condition that carries its keyword
Filters == <<None, Text(<<"x", ">", "1">>), Text(<<"w","h","e","r","e"," ","x">>)>>

\* What the platform assigns to a managed account it creates.  The url has the
\* shape the docstring of account_identifier_from_url gives.
LocatorOf(name) == <<"L">> \o name
IdentifierOf(name) == <<"o","-">> \o name
UrlOf(name) == SCHEME_HTTPS \o IdentifierOf(name) \o SNOWFLAKE_SUFFIX

\* Error texts are abstracted to the set of phrases main's helpers look for.
ALREADY_EXISTS == "already exists"
CANNOT_BE_ADDED == "cannot be added to this share"
OK == [cls |-> "ok", msg |-> {}]
\* What cursor.execute can raise: a ProgrammingError with some text, or an
\* exception of another class (connection lost, timeout).
Errors == [cls : {"ProgrammingError"}, msg : {{}, {ALREADY_EXISTS}, {CANNOT_BE_ADDED}}]
          \cup {[cls |-> "DatabaseError", msg |-> {}]}
\* Statements main does not guard treat every exception alike: one error of
\* each class stands for all of them there.
UnguardedErrors == {[cls |-> "ProgrammingError", msg |-> {ALREADY_EXISTS}],
                    [cls |-> "DatabaseError", msg |-> {}]}

\* ------------------------------------------------------------------ state
VARIABLES
    cfg,            \* the parsed config.yaml, the same in every run
    cat,            \* the remote catalog (provider side and reader accounts)
    pc,             \* position of main()
    run,            \* number of the current invocation of the script
    exitCode,       \* exit status of the run, -1 while the process is alive
    providerConn,   \* "none" | "open" | "closed"
    readerConn,     \* "none" | "open" | "closed"
    readerAcct,     \* name of the account the reader connection is scoped to, << >> if none
    raised,         \* exception in flight: "none" | "SystemExit" | "Exception"
    info,           \* ensure_managed_account's info / main's acct_info
    user_result,    \* result of ensure_reader_user
    idx,            \* index of the for-loops over objects
    issued,         \* statements handed to cursor.execute in this run, in order
    hist            \* bookkeeping over runs (not program state)

vars == <<cfg, cat, pc, run, exitCode, providerConn, readerConn, readerAcct,
          raised, info, user_result, idx, issued, hist>>

\* A user as the reader account stores it.
OLD_USER == [password |-> "old_pw", must_change |-> FALSE, email |-> "old@x",
             default_warehouse |-> "OLD_WH", default_role |-> "ANALYST"]

EmptyReader == [warehouse |-> None, database |-> None, user |-> None]

Account(name) == [account_name |-> name, account_locator |-> LocatorOf(name),
                  account_url |-> UrlOf(name), registered |-> TRUE]

READER_USER_CFG == [name |-> "RUSER", email |-> "u@x", temp_password |-> "tmp_pw"]

\* An entry of data.objects.
Obj(k) == [shared_view_name |-> ViewNames[k], source_table |-> TableNames[k],
           view_where |-> Filters[k]]

\* A YAML value of the key data.objects: a list, or a mapping (not a list).
ListOf(items) == [type |-> "list", items |-> items]
MappingOf(items) == [type |-> "dict", items |-> items]

\* The keys of the data section that say what to share.  A key that is not
\* in the domain of the record is absent from config.yaml.
ObjectLists == {[objects |-> ListOf([k \in 1..n |-> Obj(k)])] : n \in 1..MaxObjects}
LEGACY == [shared_view_name |-> "LV", source_table |-> "LT"]
LegacyData ==
    {LEGACY,
     [objects |-> ListOf(<< >>), shared_view_name |-> "LV", source_table |-> "LT",
      view_where |-> Filters[2]],
     [objects |-> ListOf(<<Obj(1)>>), shared_view_name |-> "LV", source_table |-> "LT"]}
UnresolvedData ==
    {[objects |-> ListOf(<< >>)],
     [objects |-> ListOf(<< >>), shared_view_name |-> "LV"],
     [objects |-> MappingOf(<<Obj(1)>>), source_table |-> "LT"],
     [view_where |-> Filters[2]]}

\* The configurations explored: every combination of account name, object
\* list, reader_user and smtp sections; the legacy and the unresolvable data
\* sections with one of these combinations.
Configs ==
    {c \in [account_name : {NAME_PLAIN, NAME_WILD},
            data : ObjectLists \cup LegacyData \cup UnresolvedData,
            reader_user : {None, READER_USER_CFG},
            smtp : {None, [host |-> "mail"]},
            warehouse_name : {"RWH"},
            db_name : {"RDB"},
            share_name : {"SHR"},
            shared_schema : {"SHARED"},
            provider_database : {"PDB"}] :
        /\ c.reader_user = None => c.smtp # None
        /\ c.data \notin ObjectLists =>
              c.account_name = NAME_PLAIN /\ c.reader_user # None /\ c.smtp # None}

HasAccountNamed(accs, n) == \E k \in 1..Len(accs) : accs[k].account_name = n

\* Catalogs the first run can meet: nothing provisioned on the provider side;
\* the managed accounts are some of: the configured one, another one; the
\* configured name may be taken by an object that is not a managed account;
\* the accounts that exist may already hold a user of the configured name.
InitCatalogs(c) ==
    LET choices ==
            {ch \in {<< >>, <<Account(c.account_name)>>, <<Account(NAME_OTHER)>>,
                     <<Account(NAME_OTHER), Account(c.account_name)>>}
                    \X {{}, {c.account_name}} \X BOOLEAN :
                /\ ch[2] # {} => ~HasAccountNamed(ch[1], c.account_name)
                /\ ch[3] => ch[1] # << >> /\ c.reader_user # None}
    IN  {[accounts |-> ch[1], other_objects |-> ch[2], schema |-> FALSE, views |-> {},
          share |-> None,
          reader |-> [n \in AccountNames |->
                        IF ch[3] /\ HasAccountNamed(ch[1], n)
                        THEN [EmptyReader EXCEPT !.user = OLD_USER] ELSE EmptyReader]] :
         ch \in choices}

\* Bookkeeping.  Per run: errors the platform raised, what the lookups saw,
\* what the notification did.  Over runs: the catalog before the first run and
\* at the end of the previous run, and the password-bearing user statements.
NoHist == [cat_start |-> None, cat_end |-> None, prev_exit |-> -1,
           errors |-> << >>, relookup_found |-> FALSE, user_found |-> "unknown",
           name_taken |-> "unknown", create_requests |-> 0, accounts_before |-> 0,
           email_calls |-> 0, email_outcome |-> "none",
           email_at |-> -1, prev_email_outcome |-> "none",
           first_lookup |-> None, cat_lookup |-> None, sleeps |-> 0, diag |-> {},
           pw_statements |-> 0, email_calls_total |-> 0]

TypeOK ==
    /\ cfg \in Configs
    /\ run \in 1..MaxRuns
    /\ providerConn \in {"none", "open", "closed"}
    /\ readerConn \in {"none", "open", "closed"}
    /\ raised \in {"none", "SystemExit", "Exception"}
    /\ exitCode \in {-1, 0, 1}

Init ==
    /\ cfg \in Configs
    /\ cat \in InitCatalogs(cfg)
    /\ pc = "start"
    /\ run = 1
    /\ exitCode = -1
    /\ providerConn = "none"
    /\ readerConn = "none"
    /\ readerAcct = << >>
    /\ raised = "none"
    /\ info = None
    /\ user_result = None
    /\ idx = 1
    /\ issued = << >>
    /\ hist = [NoHist EXCEPT !.cat_start = cat]

\* ------------------------------------------------------------------ config
\* objects_cfg = data_cfg.get("objects"); the list when it is a non-empty
\* list, else the one object of the legacy keys; data_cfg[...] of a missing
\* key raises KeyError.
ResolveObjects_legacy_first(d) ==
    IF {"shared_view_name", "source_table"} \subseteq DOMAIN d
    THEN [ok |-> TRUE,
          objects |-> <<[shared_view_name |-> d.shared_view_name,
                         source_table |-> d.source_table,
                         view_where |-> IF "view_where" \in DOMAIN d THEN d.view_where ELSE None]>>]
    ELSE IF "objects" \in DOMAIN d /\ d.objects.type = "list" /\ d.objects.items # << >>
    THEN [ok |-> TRUE, objects |-> d.objects.items]
    ELSE [ok |-> FALSE, objects |-> << >>]
ResolveObjects(d) ==
    IF "objects" \in DOMAIN d /\ d.objects.type = "list" /\ d.objects.items # << >>
    THEN [ok |-> TRUE, objects |-> d.objects.items]
    ELSE IF {"shared_view_name", "source_table"} \subseteq DOMAIN d
    THEN [ok |-> TRUE,
          objects |-> <<[shared_view_name |-> d.shared_view_name,
                         source_table |-> d.source_table,
                         view_where |-> IF "view_where" \in DOMAIN d THEN d.view_where ELSE None]>>]
    ELSE [ok |-> FALSE, objects |-> << >>]

\* main's local variable objects
objects == ResolveObjects(cfg.data).objects

\* ------------------------------------------------------------------ helpers
St(op, arg, sets) == [op |-> op, arg |-> arg, sets |-> sets]

\* for obj in objects: the loop is over when the last object was handled
LoopDone_short(i, objs) == i >= Len(objs) - 1
LoopDone(i, objs) == i >= Len(objs)

\* An exception leaves the try block it was raised in through its finally.
Propagate(kind, fin) == raised' = kind /\ pc' = fin

\* sys.exit(1) raises SystemExit, which unwinds like any exception.
SysExit_immediate(fin) == raised' = "SystemExit" /\ pc' = "exit"
SysExit(fin) == Propagate("SystemExit", fin)

\* An error entry: the position in issued of the statement that failed (for a
\* connect, of the last statement before it), the error, and whether the
\* catalog as it stood forced that error.
Err(pos, op, e, implied) == [pos |-> pos, op |-> op, err |-> e, implied |-> implied]

Record(stmt, e, implied) ==
    hist' = [hist EXCEPT !.errors = Append(@, Err(Len(issued) + 1, stmt.op, e, implied))]

\* cursor.execute(stmt) of a statement main does not guard: on success the
\* catalog takes the statement's effect and main goes on; an error raised by
\* the platform leaves the catalog alone and propagates.
Execute(stmt, effect, nxt, nidx, fin) ==
    /\ issued' = Append(issued, stmt)
    /\ \/ /\ cat' = effect
          /\ pc' = nxt
          /\ idx' = nidx
          /\ UNCHANGED <<raised, hist>>
       \/ \E e \in UnguardedErrors :
            /\ Propagate("Exception", fin)
            /\ Record(stmt, e, FALSE)
            /\ UNCHANGED <<cat, idx>>
    /\ UNCHANGED <<cfg, run, exitCode, providerConn, readerConn, readerAcct, info, user_result>>

\* ------------------------------------------------------------------ provider phase
\* main up to the provider connection: the sections of the configuration are
\* read; a KeyError is caught by nobody and ends the process.
ReadConfig ==
    /\ pc = "start"
    /\ IF ResolveObjects(cfg.data).ok
       THEN pc' = "connect_provider" /\ UNCHANGED raised
       ELSE Propagate("Exception", "exit")
    /\ UNCHANGED <<cfg, cat, run, exitCode, providerConn, readerConn, readerAcct, info,
                   user_result, idx, issued, hist>>

\* snowflake.connector.connect(...) to the provider, sys.exit(1) on failure
ConnectProvider ==
    /\ pc = "connect_provider"
    /\ \/ /\ providerConn' = "open"
          /\ pc' = "current_account"
          /\ UNCHANGED <<exitCode, raised, hist>>
       \/ /\ raised' = "SystemExit"
          /\ pc' = "exit"
          /\ hist' = [hist EXCEPT !.errors = Append(@, Err(0, "CONNECT", [cls |-> "DatabaseError", msg |-> {}], FALSE))]
          /\ UNCHANGED <<providerConn, exitCode>>
    /\ UNCHANGED <<cfg, cat, run, readerConn, readerAcct, info, user_result, idx, issued>>

SelectCurrentAccount ==
    /\ pc = "current_account"
    /\ Execute(St("SELECT CURRENT_ACCOUNT", "", {}), cat, "create_schema", 1, "provider_finally")

CreateSchema ==
    /\ pc = "create_schema"
    /\ Execute(St("CREATE SCHEMA IF NOT EXISTS", cfg.shared_schema, {}),
               [cat EXCEPT !.schema = TRUE], "create_view", 1, "provider_finally")

\* CREATE OR REPLACE SECURE VIEW <view> AS SELECT * FROM <table> [<filter>]
ViewStmt(obj) == [op |-> "CREATE OR REPLACE SECURE VIEW", arg |-> obj.shared_view_name,
                  sets |-> {}, from |-> obj.source_table,
                  where |-> normalize_where(obj.view_where)]

CreateSecureView ==
    /\ pc = "create_view"
    /\ Execute(ViewStmt(objects[idx]),
               [cat EXCEPT !.views = @ \cup {objects[idx].shared_view_name}],
               IF LoopDone(idx, objects) THEN "create_share" ELSE "create_view",
               IF LoopDone(idx, objects) THEN 1 ELSE idx + 1,
               "provider_finally")

\* CREATE OR REPLACE SHARE: whatever share of that name existed is dropped with
\* its grants and accounts.
NewShare == [db_usage |-> FALSE, schema_usage |-> FALSE, selects |-> {}, accounts |-> {}]

CreateShare ==
    /\ pc = "create_share"
    /\ Execute(St("CREATE OR REPLACE SHARE", cfg.share_name, {}),
               [cat EXCEPT !.share = NewShare], "grant_db", 1, "provider_finally")

GrantDatabaseToShare ==
    /\ pc = "grant_db"
    /\ Execute(St("GRANT USAGE ON DATABASE TO SHARE", cfg.provider_database, {}),
               [cat EXCEPT !.share.db_usage = TRUE], "grant_schema", 1, "provider_finally")

GrantSchemaToShare ==
    /\ pc = "grant_schema"
    /\ Execute(St("GRANT USAGE ON SCHEMA TO SHARE", cfg.shared_schema, {}),
               [cat EXCEPT !.share.schema_usage = TRUE], "grant_select", 1, "provider_finally")

GrantSelectToShare ==
    /\ pc = "grant_select"
    /\ Execute(St("GRANT SELECT ON VIEW TO SHARE", objects[idx].shared_view_name, {}),
               [cat EXCEPT !.share.selects = @ \cup {objects[idx].shared_view_name}],
               IF LoopDone(idx, objects) THEN "ema_lookup" ELSE "grant_select",
               IF LoopDone(idx, objects) THEN 1 ELSE idx + 1,
               "provider_finally")

\* Where main goes after the finally of the provider try block: on to the
\* reader connection, unless an exception is in flight, which goes on unwinding.
AfterProviderFinally_swallow(r) == "reader_connect"
AfterProviderFinally(r) == IF r = "none" THEN "reader_connect" ELSE "exit"

ProviderFinally ==
    /\ pc = "provider_finally"
    /\ providerConn' = "closed"
    /\ pc' = AfterProviderFinally(raised)
    /\ UNCHANGED <<cfg, cat, run, exitCode, readerConn, readerAcct, raised, info,
                   user_result, idx, issued, hist>>

\* ------------------------------------------------------------------ managed account
\* SHOW MANAGED ACCOUNTS LIKE '<pattern>': the registered accounts whose name
\* the pattern matches, in catalog order.
ShowManagedAccounts(c, pattern) ==
    SelectSeq(c.accounts, LAMBDA a : a.registered /\ LikeMatch(pattern, a.account_name))

get_managed_account(c, account_name) ==
    LET rows == ShowManagedAccounts(c, account_name)
    IN  IF rows = << >> THEN None
        ELSE [account_name |-> rows[1].account_name,
              account_locator |-> rows[1].account_locator,
              account_url |-> rows[1].account_url]

\* The name is in use: by a managed account, registered or not yet, or by
\* an object of another kind.
NameTaken(c, name) == name \in c.other_objects \/ HasAccountNamed(c.accounts, name)

ShowStmt == St("SHOW MANAGED ACCOUNTS", cfg.account_name, {})

\* info = get_managed_account(...); if info: ... return info
LookupHit_never(i) == FALSE
LookupHit(i) == i # None

\* ensure_managed_account, step 1: reuse the account when the lookup finds it
ensure_managed_account_lookup ==
    /\ pc = "ema_lookup"
    /\ issued' = Append(issued, ShowStmt)
    /\ \/ /\ info' = get_managed_account(cat, cfg.account_name)
          /\ pc' = IF LookupHit(info') THEN "add_account" ELSE "ema_create"
          /\ hist' = [hist EXCEPT !.name_taken = IF NameTaken(cat, cfg.account_name) THEN "taken" ELSE "free",
                                  !.accounts_before = Len(cat.accounts),
                                  !.first_lookup = info',
                                  !.cat_lookup = cat]
          /\ UNCHANGED raised
       \/ \E e \in UnguardedErrors :
            /\ Propagate("Exception", "provider_finally")
            /\ Record(ShowStmt, e, FALSE)
            /\ UNCHANGED info
    /\ UNCHANGED <<cfg, cat, run, exitCode, providerConn, readerConn, readerAcct,
                   user_result, idx>>

CreateAccountStmt == St("CREATE MANAGED ACCOUNT", cfg.account_name, {"TYPE", "ADMIN_NAME", "ADMIN_PASSWORD", "COMMENT"})

\* except ProgrammingError as e: if "already exists" in msg
CreateErrorRechecked_never(e) == FALSE
CreateErrorRechecked_any(e) == e.cls = "ProgrammingError"
CreateErrorRechecked(e) == e.cls = "ProgrammingError" /\ ALREADY_EXISTS \in e.msg

\* What the platform answers to CREATE MANAGED ACCOUNT: "ok", the error the
\* catalog implies when the name is in use, or any other error.
CreateAccountAnswers(c, name) ==
    (IF NameTaken(c, name) THEN {[cls |-> "ProgrammingError", msg |-> {ALREADY_EXISTS}]} ELSE {OK})
    \cup (Errors \ {[cls |-> "ProgrammingError", msg |-> {ALREADY_EXISTS}]})

\* ensure_managed_account, step 2: try to create it
ensure_managed_account_create ==
    /\ pc = "ema_create"
    /\ issued' = Append(issued, CreateAccountStmt)
    /\ \E ans \in CreateAccountAnswers(cat, cfg.account_name) :
         IF ans = OK
         THEN /\ cat' = [cat EXCEPT !.accounts =
                           Append(@, [Account(cfg.account_name) EXCEPT !.registered = FALSE])]
              /\ pc' = "ema_settle"
              /\ hist' = [hist EXCEPT !.create_requests = @ + 1]
              /\ UNCHANGED raised
         ELSE /\ hist' = [hist EXCEPT !.create_requests = @ + 1,
                             !.errors = Append(@, Err(Len(issued) + 1, CreateAccountStmt.op, ans,
                                                      NameTaken(cat, cfg.account_name) /\ ALREADY_EXISTS \in ans.msg))]
              /\ UNCHANGED cat
              /\ IF ans.cls = "ProgrammingError"
                 THEN IF CreateErrorRechecked(ans)
                      THEN pc' = "ema_relookup" /\ UNCHANGED raised
                      ELSE SysExit("provider_finally")
                 ELSE Propagate("Exception", "provider_finally")
    /\ UNCHANGED <<cfg, run, exitCode, providerConn, readerConn, readerAcct, info,
                   user_result, idx>>

\* The config key the name-collision log line tells the operator to change.
COLLISION_HINT == "reader.account_name in config.yaml"

\* ... "already exists": re-check SHOW MANAGED ACCOUNTS, name collision if not found
ensure_managed_account_recheck ==
    /\ pc = "ema_relookup"
    /\ issued' = Append(issued, ShowStmt)
    /\ \/ /\ info' = get_managed_account(cat, cfg.account_name)
          /\ hist' = [hist EXCEPT !.relookup_found = (info' # None),
                                  !.diag = IF info' # None THEN @ ELSE @ \cup {COLLISION_HINT}]
          /\ IF info' # None
             THEN pc' = "add_account" /\ UNCHANGED raised
             ELSE SysExit("provider_finally")
       \/ \E e \in UnguardedErrors :
            /\ Propagate("Exception", "provider_finally")
            /\ Record(ShowStmt, e, FALSE)
            /\ UNCHANGED info
    /\ UNCHANGED <<cfg, cat, run, exitCode, providerConn, readerConn, readerAcct,
                   user_result, idx>>

\* ensure_managed_account, step 3: time.sleep(5)
ensure_managed_account_sleep ==
    /\ pc = "ema_settle"
    /\ pc' = "ema_requery"
    /\ hist' = [hist EXCEPT !.sleeps = @ + 1]
    /\ UNCHANGED <<cfg, cat, run, exitCode, providerConn, readerConn, readerAcct,
                   raised, info, user_result, idx, issued>>

\* if not info: ... sys.exit(1)
RequeryMiss_never(i) == FALSE
RequeryMiss(i) == i = None

\* ... then look the account up once; fatal if it is not there
ensure_managed_account_requery ==
    /\ pc = "ema_requery"
    /\ issued' = Append(issued, ShowStmt)
    /\ \/ /\ info' = get_managed_account(cat, cfg.account_name)
          /\ IF RequeryMiss(info')
             THEN SysExit("provider_finally")
             ELSE pc' = "add_account" /\ UNCHANGED raised
          /\ UNCHANGED hist
       \/ \E e \in UnguardedErrors :
            /\ Propagate("Exception", "provider_finally")
            /\ Record(ShowStmt, e, FALSE)
            /\ UNCHANGED info
    /\ UNCHANGED <<cfg, cat, run, exitCode, providerConn, readerConn, readerAcct,
                   user_result, idx>>

\* The platform registers a created account some time after the request.
PlatformRegistersAccount ==
    /\ \E k \in 1..Len(cat.accounts) :
         /\ ~cat.accounts[k].registered
         /\ cat' = [cat EXCEPT !.accounts[k].registered = TRUE]
    /\ UNCHANGED <<cfg, pc, run, exitCode, providerConn, readerConn, readerAcct,
                   raised, info, user_result, idx, issued, hist>>

\* ------------------------------------------------------------------ share attachment
AddAccountStmt == St("ALTER SHARE ADD ACCOUNTS", info.account_locator, {})

\* if "cannot be added to this share" in msg
ShareErrorTolerated_any(e) == e.cls = "ProgrammingError"
ShareErrorTolerated(e) == e.cls = "ProgrammingError" /\ CANNOT_BE_ADDED \in e.msg

\* What the platform answers to ALTER SHARE ... ADD ACCOUNTS: the error with
\* the known text when the account is already in the share, else "ok"; or any
\* other error.
AddAccountAnswers(c, locator) ==
    (IF locator \in c.share.accounts
     THEN {[cls |-> "ProgrammingError", msg |-> {CANNOT_BE_ADDED}]} ELSE {OK})
    \cup (Errors \ {[cls |-> "ProgrammingError", msg |-> {CANNOT_BE_ADDED}]})

ensure_share_has_account ==
    /\ pc = "add_account"
    /\ issued' = Append(issued, AddAccountStmt)
    /\ \E ans \in AddAccountAnswers(cat, info.account_locator) :
         IF ans = OK
         THEN /\ cat' = [cat EXCEPT !.share.accounts = @ \cup {info.account_locator}]
              /\ pc' = "provider_finally"
              /\ UNCHANGED <<raised, hist>>
         ELSE /\ Record(AddAccountStmt, ans, CANNOT_BE_ADDED \in ans.msg)
              /\ UNCHANGED cat
              /\ IF ans.cls = "ProgrammingError"
                 THEN IF ShareErrorTolerated(ans)
                      THEN pc' = "provider_finally" /\ UNCHANGED raised
                      ELSE SysExit("provider_finally")
                 ELSE Propagate("Exception", "provider_finally")
    /\ UNCHANGED <<cfg, run, exitCode, providerConn, readerConn, readerAcct, info,
                   user_result, idx>>

\* Another session working from the same config.yaml adds the account to the
\* share first (the case the except branch of ensure_share_has_account is for).
OtherSessionAddsAccount ==
    /\ pc = "add_account"
    /\ info.account_locator \notin cat.share.accounts
    /\ cat' = [cat EXCEPT !.share.accounts = @ \cup {info.account_locator}]
    /\ UNCHANGED <<cfg, pc, run, exitCode, providerConn, readerConn, readerAcct,
                   raised, info, user_result, idx, issued, hist>>

\* ------------------------------------------------------------------ reader phase
\* The registered accounts a connector reaches under the given identifier.
AccountsAt(c, identifier) ==
    {c.accounts[k].account_name : k \in {j \in 1..Len(c.accounts) :
        c.accounts[j].registered /\ IdentifierOf(c.accounts[j].account_name) = identifier}}

\* reader_account_identifier = account_identifier_from_url(account_url);
\* snowflake.connector.connect(...) to the reader, sys.exit(1) on failure
ConnectReader ==
    /\ pc = "reader_connect"
    /\ \/ \E a \in AccountsAt(cat, account_identifier_from_url(info.account_url)) :
            /\ readerConn' = "open"
            /\ readerAcct' = a
            /\ pc' = "create_warehouse"
            /\ UNCHANGED <<raised, hist>>
       \/ /\ SysExit("exit")
          /\ hist' = [hist EXCEPT !.errors = Append(@, Err(Len(issued), "CONNECT", [cls |-> "DatabaseError", msg |-> {}],
                                                        AccountsAt(cat, account_identifier_from_url(info.account_url)) = {}))]
          /\ UNCHANGED <<readerConn, readerAcct>>
    /\ UNCHANGED <<cfg, cat, run, exitCode, providerConn, info, user_result, idx, issued>>

CreateWarehouse ==
    /\ pc = "create_warehouse"
    /\ Execute(St("CREATE OR REPLACE WAREHOUSE", cfg.warehouse_name, {}),
               [cat EXCEPT !.reader[readerAcct].warehouse =
                    [name |-> cfg.warehouse_name, public_usage |-> FALSE]],
               "create_database", 1, "reader_finally")

CreateDatabaseFromShare ==
    /\ pc = "create_database"
    /\ Execute(St("CREATE OR REPLACE DATABASE FROM SHARE", cfg.db_name, {}),
               [cat EXCEPT !.reader[readerAcct].database =
                    [name |-> cfg.db_name, share |-> cfg.share_name, public_imported |-> FALSE]],
               "grant_imported", 1, "reader_finally")

GrantImportedPrivileges ==
    /\ pc = "grant_imported"
    /\ Execute(St("GRANT IMPORTED PRIVILEGES ON DATABASE TO ROLE PUBLIC", cfg.db_name, {}),
               [cat EXCEPT !.reader[readerAcct].database.public_imported = TRUE],
               "grant_warehouse", 1, "reader_finally")

GrantWarehouseUsage ==
    /\ pc = "grant_warehouse"
    /\ Execute(St("GRANT USAGE ON WAREHOUSE TO ROLE PUBLIC", cfg.warehouse_name, {}),
               [cat EXCEPT !.reader[readerAcct].warehouse.public_usage = TRUE],
               "ensure_reader_user", 1, "reader_finally")

\* ------------------------------------------------------------------ reader user
\* SHOW USERS LIKE '<name>' in the account the connection is scoped to
ShowUsers(c, acct) == IF c.reader[acct].user = None THEN << >> ELSE <<c.reader[acct].user>>

\* if not rows
NoRows_always(rows) == TRUE
NoRows(rows) == rows = << >>

ShowUsersStmt == St("SHOW USERS", cfg.reader_user.name, {})

\* ensure_reader_user up to the lookup: nothing to do without a reader_user
\* section, else SHOW USERS decides between CREATE USER and ALTER USER
ensure_reader_user_lookup ==
    /\ pc = "ensure_reader_user"
    /\ \/ /\ cfg.reader_user = None
          /\ user_result' = [created |-> FALSE]
          /\ pc' = "notify"
          /\ UNCHANGED <<issued, raised, hist>>
       \/ /\ cfg.reader_user # None
          /\ issued' = Append(issued, ShowUsersStmt)
          /\ \/ /\ pc' = IF NoRows(ShowUsers(cat, readerAcct)) THEN "create_user" ELSE "alter_user"
                /\ hist' = [hist EXCEPT !.user_found =
                               IF ShowUsers(cat, readerAcct) = << >> THEN "absent" ELSE "found"]
                /\ UNCHANGED <<raised, user_result>>
             \/ \E e \in UnguardedErrors :
                  /\ Propagate("Exception", "reader_finally")
                  /\ Record(ShowUsersStmt, e, FALSE)
                  /\ UNCHANGED user_result
    /\ UNCHANGED <<cfg, cat, run, exitCode, providerConn, readerConn, readerAcct, info, idx>>

CreateUserStmt == St("CREATE USER", cfg.reader_user.name,
                     {"LOGIN_NAME", "PASSWORD", "MUST_CHANGE_PASSWORD", "DEFAULT_ROLE",
                      "DEFAULT_WAREHOUSE", "EMAIL"})

AlterUserStmt_password == St("ALTER USER", cfg.reader_user.name,
                             {"EMAIL", "DEFAULT_WAREHOUSE", "DEFAULT_ROLE", "PASSWORD"})
AlterUserStmt == St("ALTER USER", cfg.reader_user.name,
                    {"EMAIL", "DEFAULT_WAREHOUSE", "DEFAULT_ROLE"})

\* The user after ALTER USER ... SET of the given properties.
UserAfterSet_role(u, sets) ==
    [password |-> IF "PASSWORD" \in sets THEN cfg.reader_user.temp_password ELSE u.password,
     must_change |-> IF "MUST_CHANGE_PASSWORD" \in sets THEN TRUE ELSE u.must_change,
     email |-> IF "EMAIL" \in sets THEN cfg.reader_user.email ELSE u.email,
     default_warehouse |-> IF "DEFAULT_WAREHOUSE" \in sets THEN cfg.warehouse_name ELSE u.default_warehouse,
     default_role |-> IF "DEFAULT_ROLE" \in sets THEN "ACCOUNTADMIN" ELSE u.default_role]

UserAfterSet(u, sets) ==
    [password |-> IF "PASSWORD" \in sets THEN cfg.reader_user.temp_password ELSE u.password,
     must_change |-> IF "MUST_CHANGE_PASSWORD" \in sets THEN TRUE ELSE u.must_change,
     email |-> IF "EMAIL" \in sets THEN cfg.reader_user.email ELSE u.email,
     default_warehouse |-> IF "DEFAULT_WAREHOUSE" \in sets THEN cfg.warehouse_name ELSE u.default_warehouse,
     default_role |-> IF "DEFAULT_ROLE" \in sets THEN "PUBLIC" ELSE u.default_role]

\* The user CREATE USER makes.
NewUser == [password |-> cfg.reader_user.temp_password, must_change |-> TRUE,
            email |-> cfg.reader_user.email, default_warehouse |-> cfg.warehouse_name,
            default_role |-> "PUBLIC"]

CountPassword(stmt) == IF "PASSWORD" \in stmt.sets THEN 1 ELSE 0

\* What the platform answers to CREATE USER: "ok" unless the user exists,
\* then the error that says so; or any other error.
USER_EXISTS == [cls |-> "ProgrammingError", msg |-> {ALREADY_EXISTS}]
CreateUserAnswers(c, acct) ==
    (IF c.reader[acct].user = None THEN {OK} ELSE {USER_EXISTS})
    \cup (UnguardedErrors \ {USER_EXISTS})

\* ensure_reader_user, user not found: CREATE USER with the temporary password
ensure_reader_user_create ==
    /\ pc = "create_user"
    /\ issued' = Append(issued, CreateUserStmt)
    /\ \E ans \in CreateUserAnswers(cat, readerAcct) :
         IF ans = OK
         THEN /\ cat' = [cat EXCEPT !.reader[readerAcct].user = NewUser]
              /\ user_result' = [created |-> TRUE, name |-> cfg.reader_user.name,
                                 email |-> cfg.reader_user.email,
                                 temp_password |-> cfg.reader_user.temp_password]
              /\ pc' = "notify"
              /\ hist' = [hist EXCEPT !.pw_statements = @ + CountPassword(CreateUserStmt)]
              /\ UNCHANGED raised
         ELSE /\ Propagate("Exception", "reader_finally")
              /\ hist' = [hist EXCEPT !.pw_statements = @ + CountPassword(CreateUserStmt),
                             !.errors = Append(@, Err(Len(issued) + 1, CreateUserStmt.op, ans, ans = USER_EXISTS))]
              /\ UNCHANGED <<cat, user_result>>
    /\ UNCHANGED <<cfg, run, exitCode, providerConn, readerConn, readerAcct, info, idx>>

\* ensure_reader_user, user found: ALTER USER, the password is left alone
ensure_reader_user_update ==
    /\ pc = "alter_user"
    /\ issued' = Append(issued, AlterUserStmt)
    /\ \/ /\ cat' = [cat EXCEPT !.reader[readerAcct].user = UserAfterSet(@, AlterUserStmt.sets)]
          /\ user_result' = [created |-> FALSE, name |-> cfg.reader_user.name,
                             email |-> cfg.reader_user.email]
          /\ pc' = "notify"
          /\ hist' = [hist EXCEPT !.pw_statements = @ + CountPassword(AlterUserStmt)]
          /\ UNCHANGED raised
       \/ \E e \in UnguardedErrors :
            /\ Propagate("Exception", "reader_finally")
            /\ hist' = [hist EXCEPT !.pw_statements = @ + CountPassword(AlterUserStmt),
                           !.errors = Append(@, Err(Len(issued) + 1, AlterUserStmt.op, e, FALSE))]
            /\ UNCHANGED <<cat, user_result>>
    /\ UNCHANGED <<cfg, run, exitCode, providerConn, readerConn, readerAcct, info, idx>>

\* ------------------------------------------------------------------ notification
\* if user_result and user_result.get("created")
EmailWanted_any_result(ur) == ur # None
EmailWanted_always(ur) == TRUE
EmailWanted(ur) == ur # None /\ ur.created

\* if not smtp_cfg or not smtp_cfg.get("host"): skip
SmtpUsable(smtp) == smtp # None /\ "host" \in DOMAIN smtp /\ smtp.host # ""

\* Where send_credentials_email can fail: building the message, before its
\* try block, or inside the try block (connect, STARTTLS, login, send).
EmailStages == {"message", "transport"}

\* The try/except in send_credentials_email catches what its try block
\* raises; the try/except around the call in main catches what escapes it.
EmailFailureCaught_helper_only(stage) == stage = "transport"
EmailFailureCaught(stage) == stage \in {"transport", "message"}

\* step 8b of main: mail the credentials if the user was created
main_send_credentials_email ==
    /\ pc = "notify"
    /\ IF EmailWanted(user_result)
       THEN IF SmtpUsable(cfg.smtp)
            THEN \/ /\ hist' = [hist EXCEPT !.email_calls = @ + 1, !.email_calls_total = @ + 1,
                                            !.email_at = Len(issued),
                                            !.email_outcome = "sent"]
                    /\ pc' = "use_warehouse"
                    /\ UNCHANGED raised
                 \/ \E stage \in EmailStages :
                      /\ hist' = [hist EXCEPT !.email_calls = @ + 1, !.email_calls_total = @ + 1,
                                            !.email_at = Len(issued),
                                              !.email_outcome = stage]
                      /\ IF EmailFailureCaught(stage)
                         THEN pc' = "use_warehouse" /\ UNCHANGED raised
                         ELSE Propagate("Exception", "reader_finally")
            ELSE /\ hist' = [hist EXCEPT !.email_calls = @ + 1, !.email_calls_total = @ + 1,
                                            !.email_at = Len(issued),
                                         !.email_outcome = "skipped"]
                 /\ pc' = "use_warehouse"
                 /\ UNCHANGED raised
       ELSE /\ pc' = "use_warehouse"
            /\ UNCHANGED <<raised, hist>>
    /\ UNCHANGED <<cfg, cat, run, exitCode, providerConn, readerConn, readerAcct, info,
                   user_result, idx, issued>>

\* ------------------------------------------------------------------ SMTP session
\* port = 465 if use_ssl else (587 if use_tls else 25)
SSL_PORT == 465
STARTTLS_PORT == 587
PLAIN_PORT == 25

\* use_ssl = bool(smtp_cfg.get("use_ssl", False))
UseSsl(smtp) == "use_ssl" \in DOMAIN smtp /\ smtp.use_ssl
\* use_tls = bool(smtp_cfg.get("use_tls", True)) if not use_ssl else False
UseTls(smtp) == IF UseSsl(smtp) THEN FALSE ELSE ("use_tls" \in DOMAIN smtp => smtp.use_tls)

DefaultPort_no_starttls(use_ssl, use_tls) == IF use_ssl THEN SSL_PORT ELSE PLAIN_PORT
DefaultPort(use_ssl, use_tls) ==
    IF use_ssl THEN SSL_PORT ELSE IF use_tls THEN STARTTLS_PORT ELSE PLAIN_PORT

\* port = smtp_cfg.get("port"); if port is None: the default
PortOf(smtp) ==
    IF "port" \in DOMAIN smtp THEN smtp.port ELSE DefaultPort(UseSsl(smtp), UseTls(smtp))

\* The calls of the try block of send_credentials_email, in order.
SmtpSession(smtp) ==
    <<[ev |-> "connect", cls |-> IF UseSsl(smtp) THEN "SMTP_SSL" ELSE "SMTP",
       host |-> smtp.host, port |-> PortOf(smtp)],
      [ev |-> "ehlo"]>>
    \o (IF UseTls(smtp) /\ ~UseSsl(smtp) THEN <<[ev |-> "starttls"], [ev |-> "ehlo"]>> ELSE << >>)
    \o (IF "user" \in DOMAIN smtp /\ "password" \in DOMAIN smtp THEN <<[ev |-> "login"]>> ELSE << >>)
    \o <<[ev |-> "send_message"]>>

\* send_credentials_email(..., smtp_cfg): the calls it makes on smtplib, up
\* to the one that raises if one does, and whether it logged success, a
\* warning or the skip.
send_credentials_email(smtp) ==
    IF ~SmtpUsable(smtp) THEN {[events |-> << >>, outcome |-> "skipped"]}
    ELSE {[events |-> SmtpSession(smtp), outcome |-> "sent"]}
         \cup {[events |-> SubSeq(SmtpSession(smtp), 1, n), outcome |-> "warning"] :
                 n \in 1..Len(SmtpSession(smtp))}

\* ------------------------------------------------------------------ smoke test
UseWarehouse ==
    /\ pc = "use_warehouse"
    /\ Execute(St("USE WAREHOUSE", cfg.warehouse_name, {}), cat, "use_database", 1, "reader_finally")

UseDatabase ==
    /\ pc = "use_database"
    /\ Execute(St("USE DATABASE", cfg.db_name, {}), cat, "use_schema", 1, "reader_finally")

UseSchema ==
    /\ pc = "use_schema"
    /\ Execute(St("USE SCHEMA", cfg.shared_schema, {}), cat, "count", 1, "reader_finally")

CountQuery ==
    /\ pc = "count"
    /\ Execute(St("SELECT COUNT", objects[idx].shared_view_name, {}), cat,
               IF LoopDone(idx, objects) THEN "reader_finally" ELSE "count",
               IF LoopDone(idx, objects) THEN 1 ELSE idx + 1,
               "reader_finally")

ReaderFinally ==
    /\ pc = "reader_finally"
    /\ readerConn' = "closed"
    /\ pc' = "exit"
    /\ UNCHANGED <<cfg, cat, run, exitCode, providerConn, readerAcct, raised, info,
                   user_result, idx, issued, hist>>

\* ------------------------------------------------------------------ process
\* The interpreter ends: status 0 after the last line of main, 1 after
\* SystemExit(1) or an exception nobody caught.
Exit ==
    /\ pc = "exit"
    /\ pc' = "done"
    /\ exitCode' = IF raised = "none" THEN 0 ELSE 1
    /\ UNCHANGED <<cfg, cat, run, providerConn, readerConn, readerAcct, raised, info,
                   user_result, idx, issued, hist>>

\* The administrator runs the script again with the same config.yaml.
StartRun ==
    /\ pc = "done"
    /\ run < MaxRuns
    /\ run' = run + 1
    /\ pc' = "start"
    /\ exitCode' = -1
    /\ providerConn' = "none"
    /\ readerConn' = "none"
    /\ readerAcct' = << >>
    /\ raised' = "none"
    /\ info' = None
    /\ user_result' = None
    /\ idx' = 1
    /\ issued' = << >>
    /\ hist' = [NoHist EXCEPT !.cat_start = hist.cat_start,
                              !.cat_end = cat,
                              !.prev_exit = exitCode,
                              !.pw_statements = hist.pw_statements,
                              !.prev_email_outcome = IF hist.email_outcome # "none" THEN hist.email_outcome
                                                     ELSE hist.prev_email_outcome,
                              !.email_calls_total = hist.email_calls_total]
    /\ UNCHANGED <<cfg, cat>>

Next ==
    \/ ReadConfig
    \/ ConnectProvider
    \/ SelectCurrentAccount
    \/ CreateSchema
    \/ CreateSecureView
    \/ CreateShare
    \/ GrantDatabaseToShare
    \/ GrantSchemaToShare
    \/ GrantSelectToShare
    \/ ensure_managed_account_lookup
    \/ ensure_managed_account_create
    \/ ensure_managed_account_recheck
    \/ ensure_managed_account_sleep
    \/ ensure_managed_account_requery
    \/ PlatformRegistersAccount
    \/ ensure_share_has_account
    \/ OtherSessionAddsAccount
    \/ ProviderFinally
    \/ ConnectReader
    \/ CreateWarehouse
    \/ CreateDatabaseFromShare
    \/ GrantImportedPrivileges
    \/ GrantWarehouseUsage
    \/ ensure_reader_user_lookup
    \/ ensure_reader_user_create
    \/ ensure_reader_user_update
    \/ main_send_credentials_email
    \/ UseWarehouse
    \/ UseDatabase
    \/ UseSchema
    \/ CountQuery
    \/ ReaderFinally
    \/ Exit
    \/ StartRun

Spec == Init /\ [][Next]_vars

\* ------------------------------------------------------------------ the helpers alone
\* The helpers that compute on text and on the smtp section are applied to
\* inputs of their own: cfg holds the call (the helper and its argument) and
\* info what it returned.
\* account_url values: an optional scheme, a host made of an identifier and a
\* domain, an optional path.
Domains == {<< >>, SNOWFLAKE_SUFFIX,
            SNOWFLAKE_SUFFIX \o <<"m","u","n","i","t","y">>,
            SNOWFLAKE_SUFFIX \o <<":","4","4","3">>,
            <<".","e","x",".","o","r","g">>}
Paths == {<< >>, <<"/">>, <<"/","f","o","o">>, <<"/","x">> \o SNOWFLAKE_SUFFIX}
Urls == {sch \o id \o dom \o path :
            sch \in {<< >>, SCHEME_HTTPS, SCHEME_HTTP},
            id \in {<< >>, IdentifierOf(NAME_PLAIN)},
            dom \in Domains, path \in Paths}

\* view_where values: missing, or padding, an optional keyword, a condition,
\* padding.
Keywords == {<< >>, WHERE_KEYWORD, WHERE_LOWER, <<"W","h","e","r","e"," ">>,
             <<"W","H","E","R","E">>, <<"W","H","E","R","E","\t">>}
Wheres == {None} \cup
          {Text(lead \o kw \o cond \o trail) :
              lead \in {<< >>, <<" ">>}, kw \in Keywords,
              cond \in {<< >>, <<"x">>, <<"x",">","1">>},
              trail \in {<< >>, <<" ">>, <<"\n">>}}

\* smtp sections: a key of the mapping is there with one value, or not there.
Opt(key, vals) == [k \in (IF vals = {} THEN {} ELSE {key}) |-> CHOOSE v \in vals : TRUE]
SmtpSection(h, p, s, t, u) ==
    Opt("host", h) @@ Opt("port", p) @@ Opt("use_ssl", s) @@ Opt("use_tls", t)
    @@ Opt("user", u) @@ Opt("password", u)

HelperInit ==
    /\ \/ \E u \in Urls : cfg = [fn |-> "account_identifier_from_url", arg |-> u]
       \/ \E w \in Wheres : cfg = [fn |-> "normalize_where", arg |-> w]
       \/ cfg = [fn |-> "send_credentials_email", arg |-> None]
       \/ \E h \in {{}, {""}, {"mail"}}, p \in {{}, {2525}}, s \in {{}, {TRUE}, {FALSE}},
             t \in {{}, {TRUE}, {FALSE}}, u \in {{}, {"u"}} :
            cfg = [fn |-> "send_credentials_email", arg |-> SmtpSection(h, p, s, t, u)]
    /\ cat = None
    /\ pc = "call"
    /\ run = 1
    /\ exitCode = -1
    /\ providerConn = "none"
    /\ readerConn = "none"
    /\ readerAcct = << >>
    /\ raised = "none"
    /\ info = None
    /\ user_result = None
    /\ idx = 1
    /\ issued = << >>
    /\ hist = NoHist

\* reader_account_identifier = account_identifier_from_url(acct_info["account_url"])
CallAccountIdentifierFromUrl ==
    /\ pc = "call" /\ cfg.fn = "account_identifier_from_url"
    /\ info' = [result |-> account_identifier_from_url(cfg.arg)]
    /\ pc' = "returned"
    /\ UNCHANGED <<cfg, cat, run, exitCode, providerConn, readerConn, readerAcct,
                   raised, user_result, idx, issued, hist>>

\* view_where_sql = normalize_where(obj.get("view_where"))
CallNormalizeWhere ==
    /\ pc = "call" /\ cfg.fn = "normalize_where"
    /\ info' = [result |-> normalize_where(cfg.arg)]
    /\ pc' = "returned"
    /\ UNCHANGED <<cfg, cat, run, exitCode, providerConn, readerConn, readerAcct,
                   raised, user_result, idx, issued, hist>>

\* normalize_where applied to what it returned
CallNormalizeWhereAgain ==
    /\ pc = "returned" /\ cfg.fn = "normalize_where"
    /\ info' = [result |-> normalize_where(Text(info.result)), of |-> info.result]
    /\ pc' = "returned_again"
    /\ UNCHANGED <<cfg, cat, run, exitCode, providerConn, readerConn, readerAcct,
                   raised, user_result, idx, issued, hist>>

\* send_credentials_email(..., smtp_cfg=smtp_cfg)
CallSendCredentialsEmail ==
    /\ pc = "call" /\ cfg.fn = "send_credentials_email"
    /\ info' \in send_credentials_email(cfg.arg)
    /\ pc' = "returned"
    /\ UNCHANGED <<cfg, cat, run, exitCode, providerConn, readerConn, readerAcct,
                   raised, user_result, idx, issued, hist>>

HelperNext ==
    \/ CallAccountIdentifierFromUrl
    \/ CallNormalizeWhere
    \/ CallNormalizeWhereAgain
    \/ CallSendCredentialsEmail

HelperSpec == HelperInit /\ [][HelperNext]_vars

\* ------------------------------------------------------------------ properties
Done == pc = "done"

\* The names of the views to share, in the order of objects.
SharedViewNames == [k \in 1..Len(objects) |-> objects[k].shared_view_name]

\* The arguments of the statements of one kind issued in this run, in order.
ArgsOf(op) ==
    LET sel == SelectSeq(issued, LAMBDA st : st.op = op)
    IN  [k \in 1..Len(sel) |-> sel[k].arg]

ErrorsAt(k) == {j \in 1..Len(hist.errors) : hist.errors[j].pos = k}

\* The platform raised nothing in this run that the catalog did not force.
NoInjectedError == \A j \in 1..Len(hist.errors) : hist.errors[j].implied

UserStatements == {"CREATE USER", "ALTER USER"}

\* The catalog a run of main leaves when every statement succeeds, from
\* catalog c0: main's statements applied in order.
Provisioned(c0) ==
    LET found == get_managed_account(c0, cfg.account_name)
        acct == IF found # None THEN found.account_name ELSE cfg.account_name
        loc == IF found # None THEN found.account_locator ELSE LocatorOf(cfg.account_name)
        old == c0.reader[acct].user
    IN  [accounts |-> IF found # None THEN c0.accounts
                      ELSE Append(c0.accounts, Account(cfg.account_name)),
         other_objects |-> c0.other_objects,
         schema |-> TRUE,
         views |-> c0.views \cup {objects[k].shared_view_name : k \in 1..Len(objects)},
         share |-> [db_usage |-> TRUE, schema_usage |-> TRUE,
                    selects |-> {objects[k].shared_view_name : k \in 1..Len(objects)},
                    accounts |-> {loc}],
         reader |-> [c0.reader EXCEPT ![acct] =
                        [warehouse |-> [name |-> cfg.warehouse_name, public_usage |-> TRUE],
                         database |-> [name |-> cfg.db_name, share |-> cfg.share_name,
                                       public_imported |-> TRUE],
                         user |-> IF cfg.reader_user = None THEN old
                                  ELSE IF old = None THEN NewUser
                                  ELSE UserAfterSet(old, AlterUserStmt.sets)]]]

\* C1: when a run that exited 0 is followed by a second run with the same
\* config, the second run exits 0 unless the platform injects an error, and
\* when it exits 0 the catalog (managed accounts, share with grants and
\* attached account, warehouse, database, user) equals the catalog the first
\* run left: no further account, no further user.
C1_SecondRunSameCatalog ==
    (Done /\ run >= 2 /\ hist.prev_exit = 0) =>
        /\ NoInjectedError => exitCode = 0
        /\ exitCode = 0 => cat = hist.cat_end

C1_Witness ==
    /\ Done /\ run = 2 /\ hist.prev_exit = 0 /\ exitCode = 0
    /\ hist.user_found = "found"
    /\ Len(cat.accounts) > Len(hist.cat_start.accounts)
    /\ hist.cat_start.reader[readerAcct].user = None
    /\ cat.reader[readerAcct].user = NewUser

\* C2 as stated: over all runs at most one password-bearing statement for
\* the reader user is issued.
C2_PasswordStatementAtMostOnce == hist.pw_statements <= 1

\* C2 amended: a password-bearing statement for the reader user is issued
\* only in a run whose lookup did not find the user; when the lookup finds
\* the user the only user statement is the update of email, default warehouse
\* and default role, and the result is created=false without temp_password.
C2_PasswordOnlyWhenUserAbsent ==
    /\ \A k \in 1..Len(issued) :
         (issued[k].op \in UserStatements /\ "PASSWORD" \in issued[k].sets)
            => hist.user_found = "absent"
    /\ hist.user_found = "found" =>
         /\ \A k \in 1..Len(issued) :
              issued[k].op \in UserStatements =>
                 /\ issued[k].op = "ALTER USER"
                 /\ issued[k].sets = {"EMAIL", "DEFAULT_WAREHOUSE", "DEFAULT_ROLE"}
         /\ user_result # None =>
              /\ user_result.created = FALSE
              /\ "temp_password" \notin DOMAIN user_result

C2_Witness ==
    /\ run = 2 /\ hist.user_found = "found" /\ hist.pw_statements = 1
    /\ user_result # None
    /\ issued[Len(issued)].op = "ALTER USER"

\* C3: ensure_share_has_account returns normally when ALTER SHARE ... ADD
\* ACCOUNTS succeeds or fails with the "cannot be added to this share" text;
\* after any other error of that statement nothing more is issued, the reader
\* account is never connected to and the run ends with exit status 1.
C3_ShareAttachErrors ==
    \A k \in 1..Len(issued) :
        issued[k].op = "ALTER SHARE ADD ACCOUNTS" =>
            IF \A j \in ErrorsAt(k) :
                  /\ hist.errors[j].err.cls = "ProgrammingError"
                  /\ CANNOT_BE_ADDED \in hist.errors[j].err.msg
            THEN pc = "provider_finally" => raised = "none"
            ELSE /\ raised # "none"
                 /\ Len(issued) = k
                 /\ readerConn = "none"
                 /\ pc \in {"provider_finally", "exit", "done"}
                 /\ Done => exitCode = 1

C3_Witness ==
    /\ pc = "create_warehouse"
    /\ \E j \in 1..Len(hist.errors) :
         /\ hist.errors[j].op = "ALTER SHARE ADD ACCOUNTS"
         /\ CANNOT_BE_ADDED \in hist.errors[j].err.msg

\* C4 as stated: when the configured account name was not in use at the
\* call, ensure_managed_account returns after exactly one CREATE MANAGED
\* ACCOUNT request that created exactly one account, and the url it returns
\* gives a non-empty identifier.
C4_CreatesExactlyOne ==
    (pc = "add_account" /\ hist.name_taken = "free") =>
        /\ hist.create_requests = 1
        /\ Len(cat.accounts) = hist.accounts_before + 1
        /\ account_identifier_from_url(info.account_url) # << >>

\* C5: no run ends with an opened connection left open, and the reader
\* connection is opened only after the provider connection was closed.
C5_ConnectionsClosed ==
    /\ pc \in {"exit", "done"} => providerConn # "open" /\ readerConn # "open"
    /\ pc = "reader_connect" => providerConn = "closed"
    /\ readerConn = "open" => providerConn = "closed"

C5_Witness ==
    /\ Done /\ exitCode = 1 /\ raised = "SystemExit"
    /\ providerConn = "closed"
    /\ issued # << >>

\* The error is one of the expected-duplicate errors main's helpers look for.
IsDuplicateAdd(e) ==
    /\ e.op = "ALTER SHARE ADD ACCOUNTS"
    /\ e.err.cls = "ProgrammingError"
    /\ CANNOT_BE_ADDED \in e.err.msg

IsAlreadyExists(e) ==
    /\ e.op = "CREATE MANAGED ACCOUNT"
    /\ e.err.cls = "ProgrammingError"
    /\ ALREADY_EXISTS \in e.err.msg

\* One statement of every step of the sequence.
StepsOfMain ==
    {"SELECT CURRENT_ACCOUNT", "CREATE SCHEMA IF NOT EXISTS", "CREATE OR REPLACE SECURE VIEW",
     "CREATE OR REPLACE SHARE", "GRANT USAGE ON DATABASE TO SHARE",
     "GRANT USAGE ON SCHEMA TO SHARE", "GRANT SELECT ON VIEW TO SHARE",
     "SHOW MANAGED ACCOUNTS", "ALTER SHARE ADD ACCOUNTS", "CREATE OR REPLACE WAREHOUSE",
     "CREATE OR REPLACE DATABASE FROM SHARE",
     "GRANT IMPORTED PRIVILEGES ON DATABASE TO ROLE PUBLIC",
     "GRANT USAGE ON WAREHOUSE TO ROLE PUBLIC", "USE WAREHOUSE", "USE DATABASE",
     "USE SCHEMA", "SELECT COUNT"}

\* C6: an error of a connect or of a statement, other than "cannot be added
\* to this share" on the share attachment and "already exists" on the account
\* creation followed by a lookup that finds the account, ends the run with
\* exit status 1 and nothing is issued after it (after "already exists", only
\* the one lookup); a run exits 0 only when every step was issued and the
\* last statement, the count query of the last view, raised nothing.
C6_ErrorsAbort ==
    /\ \A j \in 1..Len(hist.errors) :
         LET e == hist.errors[j]
         IN  IF IsDuplicateAdd(e) THEN TRUE
             ELSE IF IsAlreadyExists(e)
             THEN /\ Len(issued) > e.pos => issued[e.pos + 1].op = "SHOW MANAGED ACCOUNTS"
                  /\ ~hist.relookup_found =>
                        /\ Len(issued) <= e.pos + 1
                        /\ Len(issued) = e.pos + 1 => raised # "none"
                        /\ exitCode # 0
             ELSE /\ Len(issued) = e.pos
                  /\ raised # "none"
                  /\ exitCode # 0
    /\ Done => exitCode \in {0, 1}
    /\ exitCode = 0 =>
         /\ \A op \in StepsOfMain : \E k \in 1..Len(issued) : issued[k].op = op
         /\ issued[Len(issued)] = St("SELECT COUNT", objects[Len(objects)].shared_view_name, {})
         /\ ErrorsAt(Len(issued)) = {}
         /\ cfg.reader_user # None => \E k \in 1..Len(issued) : issued[k].op \in UserStatements

C6_Witness ==
    /\ Done /\ exitCode = 1
    /\ \E j \in 1..Len(hist.errors) :
         /\ hist.errors[j].op = "CREATE OR REPLACE DATABASE FROM SHARE"
         /\ hist.errors[j].pos = Len(issued)

SmokeTest == {"USE WAREHOUSE", "USE DATABASE", "USE SCHEMA", "SELECT COUNT"}

\* C7: after send_credentials_email fails, in building the message or in the
\* SMTP session, no exception is in flight, the created user stays as it was
\* created, and unless a smoke-test statement fails the run issues the count
\* query of every view, closes the reader connection and exits 0 with the
\* catalog fully provisioned.
C7_EmailFailureHarmless ==
    hist.email_outcome \in EmailStages =>
        /\ pc = "use_warehouse" => raised = "none"
        /\ cat.reader[readerAcct].user = NewUser
        /\ (Done /\ \A j \in 1..Len(hist.errors) : hist.errors[j].op \notin SmokeTest) =>
              /\ exitCode = 0
              /\ readerConn = "closed"
              /\ ArgsOf("SELECT COUNT") = SharedViewNames
              /\ cat = Provisioned(hist.cat_start)

C7_Witness ==
    /\ Done /\ exitCode = 0 /\ hist.email_outcome = "message"

\* C8: a first run in which nothing failed leaves the catalog Provisioned
\* gives, and when a run that aborted is followed by a run that exits 0 the
\* catalog is that same one, computed from the catalog before the first run.
C8_RerunReachesSameState ==
    /\ (Done /\ run = 1 /\ exitCode = 0 /\ hist.errors = << >>) =>
          cat = Provisioned(hist.cat_start)
    /\ (Done /\ run >= 2 /\ hist.prev_exit = 1 /\ exitCode = 0) =>
          cat = Provisioned(hist.cat_start)

C8_Witness ==
    /\ Done /\ run = 2 /\ hist.prev_exit = 1 /\ exitCode = 0
    /\ hist.user_found = "found"
    /\ hist.cat_start.reader[readerAcct].user = None
    /\ Len(cat.accounts) > Len(hist.cat_start.accounts)

\* C9: without a reader_user section no SHOW USERS, CREATE USER or ALTER USER
\* is issued, no user of the catalog changes, ensure_reader_user returns
\* exactly created=false, and send_credentials_email is not called.
C9_NoUserConfigNoOp ==
    cfg.reader_user = None =>
        /\ \A k \in 1..Len(issued) : issued[k].op \notin (UserStatements \cup {"SHOW USERS"})
        /\ hist.email_calls = 0
        /\ pc \in {"notify", "use_warehouse"} => user_result = [created |-> FALSE]
        /\ \A n \in AccountNames : cat.reader[n].user = hist.cat_start.reader[n].user

C9_Witness ==
    /\ cfg.reader_user = None /\ Done /\ exitCode = 0

\* C10: a run that exits 0 issued one CREATE OR REPLACE SECURE VIEW, one
\* GRANT SELECT ... TO SHARE and one SELECT COUNT per configured object, in
\* the configured order, and no more.
C10_OnePerObject ==
    (Done /\ exitCode = 0) =>
        /\ ArgsOf("CREATE OR REPLACE SECURE VIEW") = SharedViewNames
        /\ ArgsOf("GRANT SELECT ON VIEW TO SHARE") = SharedViewNames
        /\ ArgsOf("SELECT COUNT") = SharedViewNames

C10_Witness ==
    /\ Done /\ exitCode = 0 /\ Len(objects) >= 2
    /\ Len(ArgsOf("SELECT COUNT")) = Len(objects)

IsPrefix(a, b) == Len(a) <= Len(b) /\ SubSeq(b, 1, Len(a)) = a

OfStep(ops) == SelectSeq(issued, LAMBDA st : st.op \in ops)

\* C11: the views created, granted and counted are those of data.objects when
\* that key holds a non-empty list, else the one view of the legacy keys
\* shared_view_name/source_table/view_where; when neither is there the run
\* ends with exit status 1 without having opened a connection or issued a
\* statement, and the catalog is as it was.
C11_ObjectsResolution ==
    LET d == cfg.data
        listed == "objects" \in DOMAIN d /\ d.objects.type = "list" /\ Len(d.objects.items) > 0
        legacy == {"shared_view_name", "source_table"} \subseteq DOMAIN d
        expected == IF listed THEN d.objects.items
                    ELSE <<[shared_view_name |-> d.shared_view_name,
                            source_table |-> d.source_table,
                            view_where |-> IF "view_where" \in DOMAIN d THEN d.view_where ELSE None]>>
        names == [k \in 1..Len(expected) |-> expected[k].shared_view_name]
        tables == [k \in 1..Len(expected) |-> expected[k].source_table]
        created == OfStep({"CREATE OR REPLACE SECURE VIEW"})
    IN  IF listed \/ legacy
        THEN /\ IsPrefix(ArgsOf("CREATE OR REPLACE SECURE VIEW"), names)
             /\ IsPrefix([k \in 1..Len(created) |-> created[k].from], tables)
             /\ IsPrefix(ArgsOf("GRANT SELECT ON VIEW TO SHARE"), names)
             /\ IsPrefix(ArgsOf("SELECT COUNT"), names)
             /\ exitCode = 0 => ArgsOf("SELECT COUNT") = names
        ELSE /\ providerConn = "none" /\ readerConn = "none"
             /\ issued = << >>
             /\ hist.errors = << >>
             /\ cat = hist.cat_start
             /\ exitCode # 0
             /\ pc # "start" => raised = "Exception"
             /\ Done => exitCode = 1

C11_Witness ==
    /\ Done /\ exitCode = 1 /\ run = 1
    /\ "objects" \in DOMAIN cfg.data /\ cfg.data.objects.items = << >>
    /\ "source_table" \notin DOMAIN cfg.data
    /\ issued = << >> /\ providerConn = "none"

\* The statements of ensure_managed_account and of ensure_reader_user.
ManagedAccountOps == {"SHOW MANAGED ACCOUNTS", "CREATE MANAGED ACCOUNT"}
UserOps == {"SHOW USERS", "CREATE USER", "ALTER USER"}

\* The statements of the provider session and of the reader session in the
\* order of main; the statements the two ensure_ operations and the share
\* attachment issued stand at the place of their step.
ProviderOrder ==
    <<St("SELECT CURRENT_ACCOUNT", "", {}), St("CREATE SCHEMA IF NOT EXISTS", cfg.shared_schema, {})>>
    \o [k \in 1..Len(objects) |-> ViewStmt(objects[k])]
    \o <<St("CREATE OR REPLACE SHARE", cfg.share_name, {}),
         St("GRANT USAGE ON DATABASE TO SHARE", cfg.provider_database, {}),
         St("GRANT USAGE ON SCHEMA TO SHARE", cfg.shared_schema, {})>>
    \o [k \in 1..Len(objects) |-> St("GRANT SELECT ON VIEW TO SHARE", objects[k].shared_view_name, {})]
    \o OfStep(ManagedAccountOps)
    \o OfStep({"ALTER SHARE ADD ACCOUNTS"})

ReaderOrder ==
    <<St("CREATE OR REPLACE WAREHOUSE", cfg.warehouse_name, {}),
      St("CREATE OR REPLACE DATABASE FROM SHARE", cfg.db_name, {}),
      St("GRANT IMPORTED PRIVILEGES ON DATABASE TO ROLE PUBLIC", cfg.db_name, {}),
      St("GRANT USAGE ON WAREHOUSE TO ROLE PUBLIC", cfg.warehouse_name, {})>>
    \o OfStep(UserOps)
    \o <<St("USE WAREHOUSE", cfg.warehouse_name, {}), St("USE DATABASE", cfg.db_name, {}),
         St("USE SCHEMA", cfg.shared_schema, {})>>
    \o [k \in 1..Len(objects) |-> St("SELECT COUNT", objects[k].shared_view_name, {})]

\* ensure_share_has_account was called and returned.
AttachedNormally ==
    /\ Len(OfStep({"ALTER SHARE ADD ACCOUNTS"})) = 1
    /\ \A k \in 1..Len(issued) :
         issued[k].op = "ALTER SHARE ADD ACCOUNTS" =>
            \A j \in ErrorsAt(k) : IsDuplicateAdd(hist.errors[j])

\* C15: the statements of a run are a prefix of the program order; nothing
\* is issued before the provider connection is opened; the share attachment
\* comes after the lookup of ensure_managed_account; the reader connection is
\* opened, and a statement is issued on it, only after the attachment
\* returned and the provider connection was closed; the user statements come
\* before the notification and the smoke test after it.
C15_FixedOrder ==
    LET provider == ProviderOrder
        attach == OfStep({"ALTER SHARE ADD ACCOUNTS"})
        ema == OfStep(ManagedAccountOps)
        users == OfStep(UserOps)
        smoke == \E k \in 1..Len(issued) : issued[k].op \in SmokeTest
    IN  /\ IsPrefix(issued, provider \o ReaderOrder)
        /\ providerConn = "none" => issued = << >> /\ readerConn = "none"
        /\ providerConn = "open" => Len(issued) <= Len(provider) /\ readerConn = "none"
        /\ attach # << >> => ema # << >> /\ ema[1] = ShowStmt
        /\ pc = "reader_connect" => AttachedNormally /\ providerConn = "closed" /\ raised = "none"
        /\ readerConn # "none" => AttachedNormally /\ providerConn = "closed"
        /\ Len(issued) > Len(provider) => readerConn # "none"
        /\ (cfg.reader_user # None /\ smoke) => Len(users) = 2 /\ users[1] = ShowUsersStmt
        /\ hist.email_at # -1 =>
              /\ issued[hist.email_at].op = "CREATE USER"
              /\ \A k \in (hist.email_at + 1)..Len(issued) : issued[k].op \in SmokeTest
        /\ (user_result # None /\ user_result.created /\ smoke) => hist.email_at # -1

C15_Witness ==
    /\ Done /\ exitCode = 0
    /\ issued = ProviderOrder \o ReaderOrder
    /\ hist.email_at # -1
    /\ hist.create_requests = 1

C17_AlreadyExistsRechecks ==
    \A j \in 1..Len(hist.errors) :
        LET e == hist.errors[j]
        IN  e.op = "CREATE MANAGED ACCOUNT" =>
              IF e.err.cls = "ProgrammingError" /\ ALREADY_EXISTS \in e.err.msg
              THEN /\ pc # "ema_relookup" => Len(issued) > e.pos /\ issued[e.pos + 1] = ShowStmt
                   /\ (Len(issued) > e.pos /\ ErrorsAt(e.pos + 1) = {}) =>
                        IF hist.relookup_found
                        THEN /\ info # None
                             /\ HasAccountNamed(cat.accounts, info.account_name)
                             /\ Len(issued) = e.pos + 1 => pc = "add_account" /\ raised = "none"
                        ELSE /\ info = None
                             /\ raised = "SystemExit"
                             /\ Len(issued) = e.pos + 1
                             /\ COLLISION_HINT \in hist.diag
                             /\ exitCode # 0
                             /\ Done => exitCode = 1
              ELSE /\ Len(issued) = e.pos
                   /\ raised # "none"
                   /\ hist.diag = {}
                   /\ exitCode # 0
                   /\ Done => exitCode = 1

C17_Witness ==
    /\ pc = "add_account"
    /\ hist.relookup_found
    /\ \E j \in 1..Len(hist.errors) : IsAlreadyExists(hist.errors[j])

\* C18: after a CREATE MANAGED ACCOUNT request that raised nothing, the
\* settle delay is taken once and before the lookup, the lookup is issued at
\* most once, and when it does not find the account nothing more is issued,
\* no record is returned and the run ends with exit status 1.
C18_RequeryOnceAfterCreate ==
    \A k \in 1..Len(issued) :
        (issued[k].op = "CREATE MANAGED ACCOUNT" /\ ErrorsAt(k) = {}) =>
            /\ hist.sleeps = IF pc = "ema_settle" THEN 0 ELSE 1
            /\ Len(issued) > k => issued[k + 1] = ShowStmt
            /\ pc \notin {"ema_settle", "ema_requery"} => Len(issued) > k
            /\ \A m \in (k + 2)..Len(issued) : issued[m].op # "SHOW MANAGED ACCOUNTS"
            /\ pc = "add_account" => info # None
            /\ (Len(issued) > k /\ ErrorsAt(k + 1) = {} /\ info = None) =>
                  /\ raised = "SystemExit"
                  /\ Len(issued) = k + 1
                  /\ pc \in {"provider_finally", "exit", "done"}
                  /\ readerConn = "none"
                  /\ exitCode # 0
                  /\ Done => exitCode = 1

C18_Witness ==
    /\ Done /\ exitCode = 1
    /\ info = None
    /\ Len(issued) >= 2
    /\ issued[Len(issued) - 1].op = "CREATE MANAGED ACCOUNT"
    /\ ErrorsAt(Len(issued) - 1) = {} /\ ErrorsAt(Len(issued)) = {}

\* C19 as stated: a record ensure_managed_account holds carries the requested
\* account name.
C19_ReturnedRecordHasRequestedName ==
    info # None => info.account_name = cfg.account_name

\* C20: send_credentials_email is called in a run only after CREATE USER
\* succeeded in that run; it is called at most once in a run and at most once
\* over all runs, and never in a run whose SHOW USERS found the user, whatever
\* became of the call of the run that created the user.
C20_EmailOnlyForCreatedUser ==
    /\ hist.email_calls > 0 =>
         /\ user_result # None /\ user_result.created
         /\ hist.user_found = "absent"
         /\ \E k \in 1..Len(issued) : issued[k].op = "CREATE USER" /\ ErrorsAt(k) = {}
    /\ hist.email_calls <= 1
    /\ hist.email_calls_total <= 1
    /\ hist.user_found = "found" => hist.email_calls = 0

C20_Witness ==
    /\ run = 2 /\ Done /\ exitCode = 0
    /\ hist.prev_email_outcome = "transport"
    /\ hist.user_found = "found"
    /\ hist.email_calls = 0 /\ hist.email_calls_total = 1
EndsWith(s, p) == Len(s) >= Len(p) /\ SubSeq(s, Len(s) - Len(p) + 1, Len(s)) = p

\* The part of a url between the scheme and the first "/".
HostPortion(url) ==
    SplitFirst(IF StartsWith(url, SCHEME_HTTPS) THEN DropPrefix(url, Len(SCHEME_HTTPS))
               ELSE IF StartsWith(url, SCHEME_HTTP) THEN DropPrefix(url, Len(SCHEME_HTTP))
               ELSE url,
               <<"/">>)

\* C12 as stated: account_identifier_from_url returns the host portion of
\* the url without the suffix .snowflakecomputing.com when the host portion
\* ends with it, and the host portion unchanged when it does not.
C12_SuffixStripped ==
    (pc = "returned" /\ cfg.fn = "account_identifier_from_url") =>
        LET h == HostPortion(cfg.arg)
        IN  info.result = IF EndsWith(h, SNOWFLAKE_SUFFIX)
                          THEN SubSeq(h, 1, Len(h) - Len(SNOWFLAKE_SUFFIX))
                          ELSE h

HasEvent(events, ev) == \E k \in 1..Len(events) : events[k].ev = ev

\* C13: without an smtp host send_credentials_email makes no call; else it
\* connects with SMTP_SSL when use_ssl is true and never calls starttls then,
\* whatever use_tls says; with plain SMTP otherwise, calling starttls before
\* anything is sent when use_tls is true or absent, and not calling it when
\* use_tls is false; the port is the configured one when there is one, else
\* 465, 587 or 25 in these three cases.
C13_TransportPrecedence ==
    (pc = "returned" /\ cfg.fn = "send_credentials_email") =>
        LET smtp == cfg.arg
            ssl == "use_ssl" \in DOMAIN smtp /\ smtp.use_ssl
            tls == ~ssl /\ ("use_tls" \in DOMAIN smtp => smtp.use_tls)
            ev == info.events
        IN  IF smtp = None \/ "host" \notin DOMAIN smtp
            THEN ev = << >> /\ info.outcome = "skipped"
            ELSE smtp.host # "" =>
                 /\ ev # << >>
                 /\ ev[1].ev = "connect"
                 /\ ev[1].cls = IF ssl THEN "SMTP_SSL" ELSE "SMTP"
                 /\ ev[1].port = IF "port" \in DOMAIN smtp THEN smtp.port
                                 ELSE IF ssl THEN 465 ELSE IF tls THEN 587 ELSE 25
                 /\ ssl => ~HasEvent(ev, "starttls")
                 /\ (~ssl /\ ~tls) => ~HasEvent(ev, "starttls")
                 /\ (tls /\ (HasEvent(ev, "send_message") \/ HasEvent(ev, "login"))) =>
                       (Len(ev) >= 3 /\ ev[3].ev = "starttls")
                 /\ info.outcome = "sent" => ev[Len(ev)].ev = "send_message"

C13_Witness ==
    /\ pc = "returned" /\ cfg.fn = "send_credentials_email"
    /\ cfg.arg # None /\ {"use_ssl", "use_tls", "host"} \subseteq DOMAIN cfg.arg
    /\ cfg.arg.use_ssl /\ cfg.arg.use_tls /\ "port" \notin DOMAIN cfg.arg
    /\ info.outcome = "sent"
    /\ info.events[1].port = 465

\* C14 as stated: normalize_where returns "" for a missing or blank filter,
\* the filter itself when it starts with "WHERE " in any case, else "WHERE "
\* followed by the filter; the result is "" or starts with "WHERE " in any
\* case; normalize_where of the result is the result.
C14_FilterUnchanged ==
    (pc \in {"returned", "returned_again"} /\ cfg.fn = "normalize_where") =>
        LET t == IF cfg.arg = None THEN << >> ELSE cfg.arg.text
            r == IF pc = "returned" THEN info.result ELSE info.of
        IN  /\ r = IF Strip(t) = << >> THEN << >>
                   ELSE IF StartsWith(Lower(t), WHERE_LOWER) THEN t
                   ELSE WHERE_KEYWORD \o t
            /\ r = << >> \/ StartsWith(Lower(r), WHERE_LOWER)
            /\ pc = "returned_again" => info.result = r

\* C14, amended: normalize_where returns "" for a missing or blank filter;
\* else, with t the filter without its leading and trailing whitespace, t
\* itself when t starts with "WHERE " in any case, and "WHERE " followed by t
\* when it does not; the result is "" or starts with "WHERE " in any case;
\* normalize_where of the result is the result.
C14_StrippedFilterNormalized ==
    (pc \in {"returned", "returned_again"} /\ cfg.fn = "normalize_where") =>
        LET t == Strip(IF cfg.arg = None THEN << >> ELSE cfg.arg.text)
            r == IF pc = "returned" THEN info.result ELSE info.of
        IN  /\ r = IF t = << >> THEN << >>
                   ELSE IF StartsWith(Lower(t), WHERE_LOWER) THEN t
                   ELSE WHERE_KEYWORD \o t
            /\ r = << >> \/ StartsWith(Lower(r), WHERE_LOWER)
            /\ pc = "returned_again" => info.result = r

C14_Witness ==
    /\ pc = "returned_again" /\ cfg.fn = "normalize_where"
    /\ cfg.arg = Text(<<" ">> \o WHERE_LOWER \o <<"x", ">", "1", " ">>)
    /\ info.result = WHERE_LOWER \o <<"x", ">", "1">>
====
